---- MODULE Spec2Model ----
(***************************************************************************)
(* Model of debian_iso_customizer.py: the `create` pipeline (extract,      *)
(* preseed injection, post-install script, bootloader patching, rebuild)   *)
(* and the optional USB provisioning (_find_usb_drives, _flash_usb_drive). *)
(*                                                                         *)
(* Text is modelled as a sequence of tokens.  A token is a TLA+ string     *)
(* that is either pure whitespace ("\n", " ", "    ") or a run of          *)
(* characters with no leading or trailing whitespace, so that str.strip()  *)
(* and f-string concatenation act on tokens exactly as on characters.      *)
(***************************************************************************)
EXTENDS Integers, Sequences, FiniteSets, TLC

\* ---------------------------------------------------------------- bounds
MaxLen == 2        \* longest boot-config text of the source image, in tokens
MaxDevs == 3       \* longest block-device list lsblk reports
MaxRuns == 2       \* invocations of `create` on the same workspace
MaxChoiceLen == 2  \* longest answer typed at the drive-number prompt

\* ------------------------------------------------------------------ text
Whitespace == {"\n", " ", "    "}

RECURSIVE LStrip(_)
LStrip(s) == IF s # <<>> /\ Head(s) \in Whitespace THEN LStrip(Tail(s)) ELSE s

RECURSIVE RStrip(_)
RStrip(s) ==
    IF s # <<>> /\ s[Len(s)] \in Whitespace
    THEN RStrip(SubSeq(s, 1, Len(s) - 1))
    ELSE s

\* str.strip(): leading and trailing whitespace removed
Strip(s) == RStrip(LStrip(s))

RECURSIVE TextLen(_)
\* len(text): the number of characters
TextLen(s) == IF s = <<>> THEN 0 ELSE Len(Head(s)) + TextLen(Tail(s))

IsPrefix(p, s) == Len(p) <= Len(s) /\ SubSeq(s, 1, Len(p)) = p
IsSuffix(t, s) == Len(t) <= Len(s) /\ SubSeq(s, Len(s) - Len(t) + 1, Len(s)) = t

\* the triple-quoted literal of lines 90-96, before .strip()
isolinux_autoinstall_literal ==
    << "\n", "DEFAULT autoinstall",
       "\n", "LABEL autoinstall",
       "\n", "    ", "MENU LABEL Automated Install",
       "\n", "    ", "KERNEL /install.amd/vmlinuz",
       "\n", "    ", "APPEND initrd=/install.amd/initrd.gz --- quiet auto=true priority=critical preseed/file=/cdrom/preseed.cfg",
       "\n", "    " >>

isolinux_autoinstall_config == Strip(isolinux_autoinstall_literal)

\* the triple-quoted literal of lines 111-116, before .strip()
grub_autoinstall_literal ==
    << "\n", "menuentry 'Automated Unattended Install' --class auto {",
       "\n", "    ", "linux    /install.amd/vmlinuz --- quiet auto=true priority=critical preseed/file=/cdrom/preseed.cfg",
       "\n", "    ", "initrd   /install.amd/initrd.gz",
       "\n", "}",
       "\n", "    " >>

grub_autoinstall_entry == Strip(grub_autoinstall_literal)

\* mutant: the original text is stripped before it is appended
ModifiedIsolinuxStripped(original) ==
    <<"TIMEOUT 10", "\n">> \o isolinux_autoinstall_config \o <<"\n">> \o Strip(original)

\* f"TIMEOUT 10\n{isolinux_autoinstall_config}\n{original_isolinux_content}"
ModifiedIsolinuxContent(original) ==
    <<"TIMEOUT 10", "\n">> \o isolinux_autoinstall_config \o <<"\n">> \o original

\* f'set timeout=1\nset default="0"\n\n{grub_autoinstall_entry}\n\n{original_grub_content}'
ModifiedGrubContent(original) ==
    <<"set timeout=1", "\n", "set default=\"0\"", "\n", "\n">>
        \o grub_autoinstall_entry \o <<"\n", "\n">> \o original

\* ----------------------------------------------------------------- files
Missing == [exists |-> FALSE, text |-> <<>>]
File(t) == [exists |-> TRUE, text |-> t]

\* tokens a boot config of the source image is made of
ConfigTokens == {"\n", "    ", "label install"}

RECURSIVE TextsUpTo(_)
TextsUpTo(n) ==
    IF n = 0 THEN {<<>>}
    ELSE LET shorter == TextsUpTo(n - 1)
         IN  shorter \cup {Append(t, c) : t \in shorter, c \in ConfigTokens}

Texts == TextsUpTo(MaxLen)
ImageFiles == {Missing} \cup {File(t) : t \in Texts}

\* images the whole pipeline is explored with: each boot config absent or present
PipelineFiles == {Missing, File(<<"label install", "\n">>)}

\* xorriso -extract into a workspace that is not cleared: a file the image holds
\* replaces the workspace's copy or, when xorriso does not overwrite, leaves it
ExtractedFile(old, img, overwrite) ==
    IF img.exists /\ (overwrite \/ ~old.exists) THEN img ELSE old

\* --------------------------------------------------------------- devices
DevNames == <<"sda", "sdb", "sdc", "sdd", "sde", "sdf">>
DevSizes == <<"8G", "16G", "32G", "64G", "128G", "256G">>
Transports == {"usb", "sata", "null"}
DevTypes == {"disk", "part"}

\* what lsblk -J -o NAME,SIZE,TYPE,TRAN lists under "blockdevices"
BlockDeviceLists ==
    UNION { { [i \in 1..n |-> [name |-> DevNames[i], size |-> DevSizes[i],
                                type |-> k[i][1], tran |-> k[i][2]]]
              : k \in [1..n -> DevTypes \X Transports] }
            : n \in 0..MaxDevs }

\* mutant: the device class is not looked at
IsUsbTransport(dev) == dev.tran = "usb"

\* the filter of line 178
IsUsbDisk(dev) == dev.tran = "usb" /\ dev.type = "disk"

\* {"name": f"/dev/{dev['name']}", "size": dev["size"]}
Descriptor(dev) == [name |-> "/dev/" \o dev.name, size |-> dev.size]

RECURSIVE UsbDrivesOf(_)
\* the list comprehension of lines 175-179
UsbDrivesOf(devs) ==
    IF devs = <<>> THEN <<>>
    ELSE IF IsUsbDisk(Head(devs))
         THEN <<Descriptor(Head(devs))>> \o UsbDrivesOf(Tail(devs))
         ELSE UsbDrivesOf(Tail(devs))

\* ------------------------------------------------------ the typed choice
Digits == {"0", "1", "2", "3", "4", "5"}
ChoiceChars == Digits \cup {"-", "x"}

RECURSIVE ChoicesUpTo(_)
ChoicesUpTo(n) ==
    IF n = 1 THEN {<<c>> : c \in ChoiceChars}
    ELSE LET shorter == ChoicesUpTo(n - 1)
         IN  shorter \cup {Append(t, c) : t \in shorter, c \in ChoiceChars}

\* typer.prompt without a default never returns an empty answer
Choices == ChoicesUpTo(MaxChoiceLen)

DigitVal(c) ==
    CASE c = "0" -> 0 [] c = "1" -> 1 [] c = "2" -> 2
      [] c = "3" -> 3 [] c = "4" -> 4 [] c = "5" -> 5

AllDigits(s) == s # <<>> /\ \A i \in 1..Len(s) : s[i] \in Digits

\* int(choice) does not raise ValueError
IsIntLiteral(s) == IF Head(s) = "-" THEN AllDigits(Tail(s)) ELSE AllDigits(s)

RECURSIVE DecimalValue(_)
DecimalValue(s) ==
    IF s = <<>> THEN 0
    ELSE 10 * DecimalValue(SubSeq(s, 1, Len(s) - 1)) + DigitVal(s[Len(s)])

\* int(choice)
IntOf(s) == IF Head(s) = "-" THEN 0 - DecimalValue(Tail(s)) ELSE DecimalValue(s)

\* mutant: the lower bound of the range test is missing
BelowLen(drive_index, n) == drive_index < n

\* 0 <= drive_index < len(usb_drives)
ValidIndex(drive_index, n) == 0 <= drive_index /\ drive_index < n

\* list[i] in Python: a negative index counts from the end
PyIndex(list, i) == IF i >= 0 THEN list[i + 1] ELSE list[Len(list) + i + 1]

\* mutant: the prompt's answer is not consulted
ConfirmIgnored(force_flag, answer) == TRUE

\* line 215 does not cancel: `not force and not typer.confirm(...)` is false
ConfirmPasses(force_flag, answer) == force_flag \/ answer

\* ----------------------------------------------------------------- state
VARIABLES
    pc,                        \* where `create` stands, or how it ended
    run,                       \* number of the current invocation of `create`
    image,                     \* boot configs held by SOURCE_ISO_PATH
    isolinux_cfg,              \* WORKSPACE_DIR/isolinux/isolinux.cfg
    grub_cfg,                  \* WORKSPACE_DIR/boot/grub/grub.cfg
    original_isolinux_content, \* local of _update_bootloader_configs
    original_grub_content,     \* local of _update_bootloader_configs
    lsblk_installed,           \* whether lsblk is on the PATH
    devices,                   \* local of _find_usb_drives
    usb_drives,                \* local of create
    selected_drive,            \* local of create / `device` of _flash_usb_drive
    force,                     \* parameter of _flash_usb_drive
    choice,                    \* answer typed at the drive-number prompt
    select_answer,             \* answer to the prompt of line 292 or 302
    confirm_answer,            \* answer to the prompt of line 215
    calls,                     \* external tools run on the device, in order
    console,                   \* messages printed during this invocation
    stages,                    \* stages of `create` started, in order
    error                      \* the exception that ended the invocation

vars == << pc, run, image, isolinux_cfg, grub_cfg, original_isolinux_content,
           original_grub_content, lsblk_installed, devices, usb_drives,
           selected_drive, force, choice, select_answer, confirm_answer,
           calls, console, stages, error >>

workspace == << isolinux_cfg, grub_cfg, original_isolinux_content, original_grub_content >>
provisioning == << devices, usb_drives, selected_drive, force, choice,
                   select_answer, confirm_answer, calls >>
environment == << run, image, lsblk_installed >>

NoDrive == "none"
NoAnswer == "none"
ExitCodes == {0, 1}   \* an external tool exits zero or nonzero

Terminal == {"done", "cancelled", "aborted"}

\* the order in which `create` calls its stages (lines 252-308)
StageOrder == << "verify", "extract", "preseed", "script", "patch", "build",
                 "find", "flash" >>

FreshRun ==
    /\ pc = "verify"
    /\ original_isolinux_content = <<>>
    /\ original_grub_content = <<>>
    /\ devices = <<>>
    /\ usb_drives = <<>>
    /\ selected_drive = NoDrive
    /\ force = FALSE
    /\ choice = <<>>
    /\ select_answer = NoAnswer
    /\ confirm_answer = NoAnswer
    /\ calls = <<>>
    /\ console = {}
    /\ stages = <<>>
    /\ error = "none"

InitCommon ==
    /\ FreshRun
    /\ run = 1
    /\ isolinux_cfg = Missing
    /\ grub_cfg = Missing

\* the whole pipeline, over images whose boot configs are present or absent
Init ==
    /\ InitCommon
    /\ image \in [isolinux : PipelineFiles, grub : PipelineFiles]
    /\ lsblk_installed \in BOOLEAN

\* the build stages over every boot-config text, on a host without lsblk
InitPatch ==
    /\ InitCommon
    /\ image \in [isolinux : ImageFiles, grub : ImageFiles]
    /\ lsblk_installed = FALSE

\* an uncaught exception or typer.Exit(code=1) ends the invocation
Abort(kind) ==
    /\ pc' = "aborted"
    /\ error' = kind

\* ---------------------------------------------------------- build stages
\* lines 252-254 and _verify_prerequisites
VerifyPrerequisites ==
    /\ pc = "verify"
    /\ stages' = Append(stages, "verify")
    /\ \E xorriso_found \in BOOLEAN :
         IF xorriso_found
         THEN /\ pc' = "extract"
              /\ UNCHANGED << console, error >>
         ELSE /\ console' = console \cup {"err_xorriso"}
              /\ Abort("missing_tool")
    /\ UNCHANGED << environment, workspace, provisioning >>

\* lines 256-263 and _extract_iso
ExtractIso ==
    /\ pc = "extract"
    /\ stages' = Append(stages, "extract")
    /\ \E rc \in ExitCodes, overwrite \in BOOLEAN :
         IF rc = 0
         THEN /\ isolinux_cfg' = ExtractedFile(isolinux_cfg, image.isolinux, overwrite)
              /\ grub_cfg' = ExtractedFile(grub_cfg, image.grub, overwrite)
              /\ pc' = "preseed"
              /\ UNCHANGED error
         ELSE /\ Abort("extract_failed")
              /\ UNCHANGED << isolinux_cfg, grub_cfg >>
    /\ UNCHANGED << environment, original_isolinux_content, original_grub_content,
                    provisioning, console >>

\* lines 265-267 and _create_preseed_config
CreatePreseedConfig ==
    /\ pc = "preseed"
    /\ stages' = Append(stages, "preseed")
    /\ \E preseed_exists \in BOOLEAN :
         IF preseed_exists
         THEN /\ pc' = "script"
              /\ UNCHANGED << console, error >>
         ELSE /\ console' = console \cup {"err_preseed"}
              /\ Abort("missing_preseed")
    /\ UNCHANGED << environment, workspace, provisioning >>

\* mutant: the missing config is reported but the Exit is not raised
GeneratePostInstallScriptNoExit ==
    /\ pc = "script"
    /\ stages' = Append(stages, "script")
    /\ \E config \in {"absent", "malformed", "valid"} :
         CASE config = "absent" ->
                /\ console' = console \cup {"err_config"}
                /\ pc' = "patch"
                /\ UNCHANGED error
           [] config = "malformed" ->
                /\ Abort("malformed_config")
                /\ UNCHANGED console
           [] config = "valid" ->
                /\ pc' = "patch"
                /\ UNCHANGED << console, error >>
    /\ UNCHANGED << environment, workspace, provisioning >>

\* lines 269-271 and _generate_post_install_script
GeneratePostInstallScript ==
    /\ pc = "script"
    /\ stages' = Append(stages, "script")
    /\ \E config \in {"absent", "malformed", "valid"} :
         CASE config = "absent" ->
                /\ console' = console \cup {"err_config"}
                /\ Abort("missing_config")
           [] config = "malformed" ->
                /\ Abort("malformed_config")
                /\ UNCHANGED console
           [] config = "valid" ->
                /\ pc' = "patch"
                /\ UNCHANGED << console, error >>
    /\ UNCHANGED << environment, workspace, provisioning >>

\* lines 273-275 and _update_bootloader_configs: isolinux.cfg is rewritten
\* before grub.cfg is opened
UpdateBootloaderConfigs ==
    /\ pc = "patch"
    /\ stages' = Append(stages, "patch")
    /\ IF ~isolinux_cfg.exists
       THEN /\ Abort("layout")
            /\ UNCHANGED workspace
       ELSE /\ original_isolinux_content' = isolinux_cfg.text
            /\ isolinux_cfg' = File(ModifiedIsolinuxContent(isolinux_cfg.text))
            /\ IF ~grub_cfg.exists
               THEN /\ Abort("layout")
                    /\ UNCHANGED << grub_cfg, original_grub_content >>
               ELSE /\ original_grub_content' = grub_cfg.text
                    /\ grub_cfg' = File(ModifiedGrubContent(grub_cfg.text))
                    /\ pc' = "build"
                    /\ UNCHANGED error
    /\ UNCHANGED << environment, provisioning, console >>

\* lines 277-284 and _rebuild_iso
RebuildIso ==
    /\ pc = "build"
    /\ stages' = Append(stages, "build")
    /\ \E rc \in ExitCodes :
         IF rc = 0
         THEN /\ pc' = "find"
              /\ UNCHANGED error
         ELSE Abort("build_failed")
    /\ UNCHANGED << environment, workspace, provisioning, console >>

\* ----------------------------------------------------- device discovery
\* line 287 and _find_usb_drives: lsblk missing (FileNotFoundError), exiting
\* nonzero (CalledProcessError) or printing no JSON (JSONDecodeError) gives []
FindUsbDrives ==
    /\ pc = "find"
    /\ stages' = Append(stages, "find")
    /\ IF ~lsblk_installed
       THEN /\ devices' = <<>>
            /\ usb_drives' = <<>>
       ELSE \E outcome \in {"nonzero", "unparseable", "listed"} :
              IF outcome = "listed"
              THEN \E listed \in BlockDeviceLists :
                     /\ devices' = listed
                     /\ usb_drives' = UsbDrivesOf(listed)
              ELSE /\ devices' = <<>>
                   /\ usb_drives' = <<>>
    /\ pc' = "usb_check"
    /\ UNCHANGED << environment, workspace, selected_drive, force, choice,
                    select_answer, confirm_answer, calls, console, error >>

\* line 288: `if usb_drives:` is false
NoUsbDrives ==
    /\ pc = "usb_check"
    /\ usb_drives = <<>>
    /\ devices' = <<>>
    /\ pc' = "complete"
    /\ UNCHANGED << environment, workspace, usb_drives, selected_drive, force,
                    choice, select_answer, confirm_answer, calls, console,
                    stages, error >>

\* lines 289-296: one candidate, one prompt, then the flash with force=True
ConfirmSingleDrive ==
    /\ pc = "usb_check"
    /\ Len(usb_drives) = 1
    /\ devices' = <<>>
    /\ selected_drive' = usb_drives[1].name
    /\ \E answer \in BOOLEAN :
         IF answer
         THEN /\ select_answer' = "yes"
              /\ force' = TRUE
              /\ pc' = "flash_unmount"
              /\ UNCHANGED console
         ELSE /\ select_answer' = "no"
              /\ console' = console \cup {"flashing_cancelled"}
              /\ pc' = "complete"
              /\ UNCHANGED force
    /\ UNCHANGED << environment, workspace, usb_drives, choice, confirm_answer,
                    calls, stages, error >>

\* lines 297-302: several candidates are listed and the operator is asked
\* whether to flash at all
ConfirmMultiDrive ==
    /\ pc = "usb_check"
    /\ Len(usb_drives) >= 2
    /\ devices' = <<>>
    /\ \E answer \in BOOLEAN :
         IF answer
         THEN /\ select_answer' = "yes"
              /\ pc' = "choose"
         ELSE /\ select_answer' = "no"
              /\ pc' = "complete"
    /\ UNCHANGED << environment, workspace, usb_drives, selected_drive, force,
                    choice, confirm_answer, calls, console, stages, error >>

\* lines 303-313: the drive number is typed, parsed and range-checked
ChooseDrive ==
    /\ pc = "choose"
    /\ \E typed \in Choices :
         /\ choice' = typed
         /\ IF ~IsIntLiteral(typed)
            THEN /\ console' = console \cup {"invalid_input"}
                 /\ pc' = "complete"
                 /\ UNCHANGED << selected_drive, error >>
            ELSE LET drive_index == IntOf(typed) - 1
                 IN  IF ~ValidIndex(drive_index, Len(usb_drives))
                     THEN /\ console' = console \cup {"invalid_selection"}
                          /\ pc' = "complete"
                          /\ UNCHANGED << selected_drive, error >>
                     ELSE IF drive_index < 0 - Len(usb_drives)
                          THEN /\ Abort("index_error")
                               /\ UNCHANGED << selected_drive, console >>
                          ELSE /\ selected_drive' = PyIndex(usb_drives, drive_index).name
                               /\ pc' = "flash_unmount"
                               /\ UNCHANGED << console, error >>
    /\ UNCHANGED << environment, workspace, devices, usb_drives, force,
                    select_answer, confirm_answer, calls, stages >>

\* ------------------------------------------------------ _flash_usb_drive
Call(tool, rc) == [tool |-> tool, device |-> selected_drive, rc |-> rc]

\* mutant: a failing umount is not caught
FlashUnmountUncaught ==
    /\ pc = "flash_unmount"
    /\ stages' = Append(stages, "flash")
    /\ \E rc \in ExitCodes :
         /\ calls' = Append(calls, Call("umount", rc))
         /\ IF rc = 0
            THEN /\ pc' = "flash_confirm"
                 /\ UNCHANGED error
            ELSE Abort("unmount_failed")
    /\ UNCHANGED << environment, workspace, devices, usb_drives, selected_drive,
                    force, choice, select_answer, confirm_answer, console >>

\* lines 205-214: umount is run and CalledProcessError is passed over
FlashUnmount ==
    /\ pc = "flash_unmount"
    /\ stages' = Append(stages, "flash")
    /\ \E rc \in ExitCodes :
         calls' = Append(calls, Call("umount", rc))
    /\ pc' = "flash_confirm"
    /\ UNCHANGED << environment, workspace, devices, usb_drives, selected_drive,
                    force, choice, select_answer, confirm_answer, console, error >>

\* mutant: a declined confirmation prints the message but raises no Exit
FlashConfirmNoExit ==
    /\ pc = "flash_confirm"
    /\ IF force
       THEN /\ pc' = "flash_write"
            /\ UNCHANGED << confirm_answer, console >>
       ELSE \E answer \in BOOLEAN :
              /\ confirm_answer' = IF answer THEN "yes" ELSE "no"
              /\ pc' = "flash_write"
              /\ console' = IF answer THEN console
                            ELSE console \cup {"operation_cancelled"}
    /\ UNCHANGED << environment, workspace, devices, usb_drives, selected_drive,
                    force, choice, select_answer, calls, stages, error >>

\* lines 215-217: with force the prompt is not shown; a declined prompt
\* raises typer.Exit()
FlashConfirm ==
    /\ pc = "flash_confirm"
    /\ IF force
       THEN /\ pc' = IF ConfirmPasses(force, FALSE) THEN "flash_write" ELSE "cancelled"
            /\ UNCHANGED << confirm_answer, console >>
       ELSE \E answer \in BOOLEAN :
              /\ confirm_answer' = IF answer THEN "yes" ELSE "no"
              /\ IF ConfirmPasses(force, answer)
                 THEN /\ pc' = "flash_write"
                      /\ UNCHANGED console
                 ELSE /\ console' = console \cup {"operation_cancelled"}
                      /\ pc' = "cancelled"
    /\ UNCHANGED << environment, workspace, devices, usb_drives, selected_drive,
                    force, choice, select_answer, calls, stages, error >>

\* mutant: dd is run without check=True
FlashWriteUnchecked ==
    /\ pc = "flash_write"
    /\ \E rc \in ExitCodes :
         /\ calls' = Append(calls, Call("dd", rc))
         /\ console' = console \cup {"flashed"}
         /\ pc' = "flash_eject"
    /\ UNCHANGED << environment, workspace, devices, usb_drives, selected_drive,
                    force, choice, select_answer, confirm_answer, stages, error >>

\* lines 219-235: dd with check=True; a nonzero exit raises CalledProcessError
FlashWrite ==
    /\ pc = "flash_write"
    /\ \E rc \in ExitCodes :
         /\ calls' = Append(calls, Call("dd", rc))
         /\ IF rc = 0
            THEN /\ console' = console \cup {"flashed"}
                 /\ pc' = "flash_eject"
                 /\ UNCHANGED error
            ELSE /\ Abort("write_failed")
                 /\ UNCHANGED console
    /\ UNCHANGED << environment, workspace, devices, usb_drives, selected_drive,
                    force, choice, select_answer, confirm_answer, stages >>

\* lines 237-240: eject with check=True; a nonzero exit raises CalledProcessError
FlashEject ==
    /\ pc = "flash_eject"
    /\ \E rc \in ExitCodes :
         /\ calls' = Append(calls, Call("eject", rc))
         /\ IF rc = 0
            THEN /\ console' = console \cup {"ejected"}
                 /\ pc' = "flash_return"
                 /\ UNCHANGED error
            ELSE /\ Abort("eject_failed")
                 /\ UNCHANGED console
    /\ UNCHANGED << environment, workspace, devices, usb_drives, selected_drive,
                    force, choice, select_answer, confirm_answer, stages >>

\* lines 294 and 309: _flash_usb_drive returned
ReportFlashSuccess ==
    /\ pc = "flash_return"
    /\ console' = console \cup {"success_flashed"}
    /\ pc' = "complete"
    /\ UNCHANGED << environment, workspace, provisioning, stages, error >>

\* line 315
ProcessComplete ==
    /\ pc = "complete"
    /\ console' = console \cup {"process_complete"}
    /\ pc' = "done"
    /\ UNCHANGED << environment, workspace, provisioning, stages, error >>

\* `create` is invoked again; WORKSPACE_DIR is left as the last run left it
Rerun ==
    /\ pc \in Terminal
    /\ run < MaxRuns
    /\ run' = run + 1
    /\ pc' = "verify"
    /\ original_isolinux_content' = <<>>
    /\ original_grub_content' = <<>>
    /\ devices' = <<>>
    /\ usb_drives' = <<>>
    /\ selected_drive' = NoDrive
    /\ force' = FALSE
    /\ choice' = <<>>
    /\ select_answer' = NoAnswer
    /\ confirm_answer' = NoAnswer
    /\ calls' = <<>>
    /\ console' = {}
    /\ stages' = <<>>
    /\ error' = "none"
    /\ UNCHANGED << image, lsblk_installed, isolinux_cfg, grub_cfg >>

Next ==
    \/ VerifyPrerequisites
    \/ ExtractIso
    \/ CreatePreseedConfig
    \/ GeneratePostInstallScript
    \/ UpdateBootloaderConfigs
    \/ RebuildIso
    \/ FindUsbDrives
    \/ NoUsbDrives
    \/ ConfirmSingleDrive
    \/ ConfirmMultiDrive
    \/ ChooseDrive
    \/ FlashUnmount
    \/ FlashConfirm
    \/ FlashWrite
    \/ FlashEject
    \/ ReportFlashSuccess
    \/ ProcessComplete
    \/ Rerun

Spec == Init /\ [][Next]_vars

\* the stages that build the image, run after run, with no USB tooling
NextPatch ==
    \/ VerifyPrerequisites
    \/ ExtractIso
    \/ CreatePreseedConfig
    \/ GeneratePostInstallScript
    \/ UpdateBootloaderConfigs
    \/ RebuildIso
    \/ FindUsbDrives
    \/ NoUsbDrives
    \/ ProcessComplete
    \/ Rerun

SpecPatch == InitPatch /\ [][NextPatch]_vars

\* ------------------------------------------------------------ properties
CallsTo(tool) == {i \in 1..Len(calls) : calls[i].tool = tool}
Succeeded(tool) == \E i \in CallsTo(tool) : calls[i].rc = 0
Failed(tool) == \E i \in CallsTo(tool) : calls[i].rc # 0
Started(stage) == \E i \in 1..Len(stages) : stages[i] = stage
InFlash == pc \in {"flash_unmount", "flash_confirm", "flash_write", "flash_eject", "flash_return"}

\* C1: the device write never begins unless the confirmation inside
\* _flash_usb_drive was answered affirmatively or force=True was passed; force
\* is passed only when exactly one candidate was discovered and the operator
\* affirmed the selection prompt; with two or more candidates the write is
\* preceded by the in-invocation confirmation; a declined confirmation
\* yields zero invocations of the write tool.
WriteNeverUnconfirmed ==
    /\ (pc \in {"flash_write", "flash_eject", "flash_return"} \/ CallsTo("dd") # {})
          => (confirm_answer = "yes" \/ force)
    /\ force => (Len(usb_drives) = 1 /\ select_answer = "yes")
    /\ (Len(usb_drives) >= 2 /\ CallsTo("dd") # {})
          => (confirm_answer = "yes" /\ ~force)
    /\ confirm_answer = "no" => CallsTo("dd") = {}

WriteAfterConfirmation ==
    /\ Len(usb_drives) >= 2
    /\ confirm_answer = "yes"
    /\ Succeeded("dd")

\* C2 as claimed: once the confirmation is declined the invocation is
\* cancelled and no external tool (unmount, write, eject) has been run on the
\* target device.
DeclineRunsNoTool ==
    confirm_answer = "no" => (pc = "cancelled" /\ calls = <<>>)

\* C2 as amended: once the confirmation is declined the invocation is
\* cancelled, neither the write tool nor eject has been run, and the only
\* tool run on the device is the one unmount attempt that precedes the prompt.
DeclineRunsOnlyUnmount ==
    confirm_answer = "no" =>
        /\ pc = "cancelled"
        /\ error = "none"
        /\ "operation_cancelled" \in console
        /\ CallsTo("dd") = {}
        /\ CallsTo("eject") = {}
        /\ Len(calls) = 1
        /\ calls[1].tool = "umount"
        /\ calls[1].device = selected_drive

DeclinedAfterUnmount ==
    /\ confirm_answer = "no"
    /\ pc = "cancelled"
    /\ CallsTo("umount") # {}

\* C3 as claimed: when the write succeeded and eject exits nonzero, the
\* invocation is not aborted: it goes on to report the flash and to print
\* "Process complete".
EjectFailureNotFatal ==
    (Succeeded("dd") /\ Failed("eject")) =>
        /\ error = "none"
        /\ pc \in {"flash_return", "complete", "done"}
        /\ (pc = "done" => "process_complete" \in console)

\* the text put before the original isolinux.cfg: timeout, then the entry
IsolinuxLead == <<"TIMEOUT 10", "\n">> \o isolinux_autoinstall_config \o <<"\n">>

\* the text put before the original grub.cfg: timeout, default, then the entry
GrubLead ==
    <<"set timeout=1", "\n", "set default=\"0\"", "\n", "\n">>
        \o grub_autoinstall_entry \o <<"\n", "\n">>

Preserved(new, lead, entry, original) ==
    /\ IsSuffix(original, new)
    /\ SubSeq(new, 1, Len(new) - Len(original)) = lead
    /\ TextLen(new) >= TextLen(entry) + TextLen(original)

PatchedBoth == Started("patch") /\ error # "layout"

\* C4: whenever both boot configs exist, after _update_bootloader_configs the
\* text of isolinux.cfg and of grub.cfg each end with the complete original
\* text of that file, what precedes it is the timeout/default directives and
\* the autoinstall entry, and the new length is at least the entry's length
\* plus the original length.
BootConfigsPreserved ==
    PatchedBoth =>
        /\ isolinux_cfg.exists /\ grub_cfg.exists
        /\ Preserved(isolinux_cfg.text, IsolinuxLead, isolinux_autoinstall_config,
                     original_isolinux_content)
        /\ Preserved(grub_cfg.text, GrubLead, grub_autoinstall_entry,
                     original_grub_content)

PatchedWhitespaceConfigs ==
    /\ pc = "build"
    /\ original_isolinux_content # <<>>
    /\ original_isolinux_content[Len(original_isolinux_content)] \in Whitespace
    /\ original_grub_content # <<>>
    /\ Head(original_grub_content) \in Whitespace

\* the stage in which each failure arises
StageOfError(kind) ==
    CASE kind = "missing_tool" -> "verify"
      [] kind = "extract_failed" -> "extract"
      [] kind = "missing_preseed" -> "preseed"
      [] kind \in {"missing_config", "malformed_config"} -> "script"
      [] kind = "layout" -> "patch"
      [] kind = "build_failed" -> "build"
      [] OTHER -> "flash"

\* C5: the stages of create start in the order verify, extract, preseed,
\* script, patch, build, find, flash; once a stage has failed the invocation
\* is aborted and that stage is the last one started; when the provisioning
\* config is absent neither the patcher nor the image builder nor any device
\* write is ever run.
StagesInOrder ==
    /\ IsPrefix(stages, StageOrder)
    /\ error # "none" =>
          /\ pc = "aborted"
          /\ stages # <<>>
          /\ stages[Len(stages)] = StageOfError(error)
    /\ "err_config" \in console =>
          /\ pc = "aborted"
          /\ ~Started("patch")
          /\ ~Started("build")
          /\ ~Started("flash")
          /\ calls = <<>>
          /\ original_isolinux_content = <<>>
          /\ original_grub_content = <<>>

ConfigAbsentAborted ==
    /\ "err_config" \in console
    /\ pc = "aborted"
    /\ stages = SubSeq(StageOrder, 1, 4)

\* a typed choice that is no number, or a number outside 1..n
NotADriveNumber(typed, n) ==
    \/ ~IsIntLiteral(typed)
    \/ IntOf(typed) < 1
    \/ IntOf(typed) > n

\* C6: with two or more USB whole disks, _flash_usb_drive is entered only
\* after a drive number within range was typed, and it asks for its own
\* confirmation (force is not set); a choice that is out of range or not a
\* number ends in the invalid-selection outcome: no drive is selected,
\* _flash_usb_drive is never entered and no tool is run on any device.
MultiDriveSelectionChecked ==
    /\ (Len(usb_drives) >= 2 /\ (InFlash \/ Started("flash"))) =>
          /\ select_answer = "yes"
          /\ ~NotADriveNumber(choice, Len(usb_drives))
          /\ selected_drive = usb_drives[IntOf(choice)].name
          /\ ~force
          /\ (CallsTo("dd") # {} => confirm_answer = "yes")
    /\ (choice # <<>> /\ NotADriveNumber(choice, Len(usb_drives))) =>
          /\ pc \in {"complete", "done"}
          /\ (IF IsIntLiteral(choice)
              THEN "invalid_selection" \in console
              ELSE "invalid_input" \in console)
          /\ selected_drive = NoDrive
          /\ ~Started("flash")
          /\ calls = <<>>

OutOfRangeRejected ==
    /\ Len(usb_drives) >= 2
    /\ choice # <<>>
    /\ IsIntLiteral(choice)
    /\ IntOf(choice) > Len(usb_drives)
    /\ "invalid_selection" \in console
    /\ pc = "done"

UsbDiskIndices == {i \in 1..Len(devices) : devices[i].tran = "usb" /\ devices[i].type = "disk"}
\* the k-th USB whole disk in enumeration order
KthUsbDisk(k) ==
    CHOOSE i \in UsbDiskIndices : Cardinality({j \in UsbDiskIndices : j <= i}) = k

\* C7: _find_usb_drives returns exactly the (device path, size) descriptors
\* of the enumerated devices whose transport is USB and whose class is whole
\* disk, in enumeration order: no USB partition, no non-USB disk, and every
\* USB whole disk.
OnlyUsbWholeDisks ==
    pc = "usb_check" =>
        /\ Len(usb_drives) = Cardinality(UsbDiskIndices)
        /\ \A k \in 1..Len(usb_drives) :
              /\ usb_drives[k].name = "/dev/" \o devices[KthUsbDisk(k)].name
              /\ usb_drives[k].size = devices[KthUsbDisk(k)].size

MixedListFiltered ==
    /\ pc = "usb_check"
    /\ Len(usb_drives) = 1
    /\ \E i \in 1..Len(devices) : devices[i].tran = "usb" /\ devices[i].type = "part"
    /\ \E i \in 1..Len(devices) : devices[i].tran = "sata" /\ devices[i].type = "disk"

\* C8: within one _flash_usb_drive invocation the write tool is run at most
\* once; eject is run only after a write that succeeded; when the write
\* fails eject is never run and the invocation is aborted with no success
\* reported.
WriteOnceThenEject ==
    /\ Cardinality(CallsTo("dd")) <= 1
    /\ \A j \in CallsTo("eject") :
          \E i \in CallsTo("dd") : i < j /\ calls[i].rc = 0
    /\ pc = "flash_eject" => Succeeded("dd")
    /\ Failed("dd") =>
          /\ CallsTo("eject") = {}
          /\ pc = "aborted"
          /\ console \cap {"flashed", "ejected", "success_flashed", "process_complete"} = {}

WriteFailedAborted ==
    /\ Failed("dd")
    /\ pc = "aborted"
    /\ error = "write_failed"

PatchIdempotent ==
    (PatchedBoth /\ run > 1) =>
        /\ IsPrefix(IsolinuxLead, original_isolinux_content)
              => isolinux_cfg.text = original_isolinux_content
        /\ IsPrefix(GrubLead, original_grub_content)
              => grub_cfg.text = original_grub_content

====
